---- MODULE Spec2Model ----
(***************************************************************************)
(* A model of the CLIMCAPS daily sub-aggregation pipeline                  *)
(* (climcaps_subaggregation.py and the driver ghg_project_production.py):  *)
(* the catalog resolver get_granule_list, the batch download wrapper       *)
(* _earthaccess_download, the loaders, concat_granules, write_cdat, the    *)
(* orchestrator run_subagg and the driver's per-day loop.                  *)
(*                                                                         *)
(* Three specifications share the definitions below:                       *)
(*   SpecResolver  get_granule_list alone, one loop step per action        *)
(*   SpecConcat    concat_granules followed by write_cdat on loaded records *)
(*   Spec          the driver, run_subagg and everything it calls          *)
(***************************************************************************)
EXTENDS Integers, Sequences, FiniteSets, TLC

VARIABLES
    pc,                    \* control position
    run,                   \* number of the driver script's invocation
    doy_i,                 \* position of the driver loop in doy_list
    doy,                   \* the day of year being processed
    local_download,        \* run_subagg's local_download parameter
    fs,                    \* the output files, by day of year
    product,               \* the variables of the product being read
    raw,                   \* SpecResolver: what earthaccess.search_data returned
    granule_list,          \* get_granule_list / run_subagg: granule_list
    idx_i,                 \* get_granule_list: position in the tuple (0, -1)
    num_tries,             \* _earthaccess_download: num_tries
    num_downloaded_files,  \* _earthaccess_download: num_downloaded_files
    files,                 \* _earthaccess_download: files (last batch result)
    download_calls,        \* number of earthaccess.download calls of this unit
    load_i,                \* run_subagg: position of the load loop
    dat_list,              \* run_subagg: dat_list
    dims,                  \* run_subagg: dims (of the last granule loaded)
    cdat,                  \* concat_granules: cdat
    cdims,                 \* concat_granules: cdims
    fold_i,                \* concat_granules: position in dat_list[1:]
    merged_dim_list,       \* write_cdat: merged_dim_list
    write_i,               \* write_cdat: position of the variable loop
    attrs,                 \* run_subagg: attrs (of the last granule loaded)
    reads,                 \* what each load of the current unit read
    unit,                  \* how the driver handled the current unit
    ops,                   \* operations invoked for the current unit
    failed                 \* the exception that ended the current run, or "none"

vars == <<pc, run, doy_i, doy, local_download, fs, product, raw, granule_list, idx_i,
          num_tries, num_downloaded_files, files, download_calls, load_i,
          dat_list, dims, cdat, cdims, fold_i, merged_dim_list, write_i, attrs,
          reads, unit, ops, failed>>

---------------------------------------------------------------------------
(* Bounds of the model *)

\* entries of one raw catalog result in SpecResolver
MaxRaw == 3
\* data links of one granule in SpecResolver
MaxLinks == 2
\* entries of one raw catalog result in Spec
MaxRunRaw == 2
\* days of the driver's doy_list that are modelled
NumDays == 2
\* invocations of the driver script
MaxRuns == 2
\* cap on the earthaccess.download calls of one unit
MaxCalls == 4
\* granules handed to concat_granules in SpecConcat
MaxGranules == 2
\* extent of a dimension in SpecConcat
MaxExtent == 2

(* Program constants *)

year == 2015
FirstDoy == 8
max_num_tries == 3

---------------------------------------------------------------------------
(* Python sequence helpers *)

\* 1-based position of Python index idx (negative counts from the end)
PyPos(s, idx) == IF idx < 0 THEN Len(s) + idx + 1 ELSE idx + 1

\* whether s[idx] raises IndexError
IndexError(s, idx) == PyPos(s, idx) \notin 1..Len(s)

\* s after s.pop(idx)
Pop(s, idx) ==
    LET p == PyPos(s, idx)
    IN [i \in 1..(Len(s) - 1) |-> IF i < p THEN s[i] ELSE s[i + 1]]

RECURSIVE SeqSum(_)
SeqSum(s) == IF s = <<>> THEN 0 ELSE Head(s) + SeqSum(Tail(s))

\* all sequences over S of length lo..hi
SeqsOf(S, lo, hi) == UNION {[1..n -> S] : n \in lo..hi}

---------------------------------------------------------------------------
(* Catalog resolver: get_granule_list *)

\* the driver's doy_list, range(8, 11), cut to NumDays days
doy_list == [i \in 1..NumDays |-> FirstDoy + i - 1]

\* (datetime(y, 1, 1) + timedelta(days = d - 1)).strftime('%Y%m%d') as a number,
\* for the days around January: d = 0 is December 31 of the year before
strftime_ymd(y, d) ==
    IF d <= 0 THEN (y - 1) * 10000 + 1200 + (31 + d)
              ELSE y * 10000 + 100 + d

\* The date tokens a file name can embed around day d: the day before, the day
\* itself, the day after.
Tokens(d) == {strftime_ymd(year, d - 1), strftime_ymd(year, d), strftime_ymd(year, d + 1)}

\* A granule is the list data_links() returns; a link is modelled by the date
\* token of its file name, filename.split('.')[3][:8].
Granules(d, maxLinks) == SeqsOf(Tokens(d), 1, maxLinks)

\* what earthaccess.search_data can return for day d
RawResults(d, maxRaw, maxLinks) == SeqsOf(Granules(d, maxLinks), 0, maxRaw)

\* the date token of a granule: that of its primary (first) data link
DateToken(g) == g[1]

\* One pass of the loop body for idx: lines 54-57.
TrimAt(gl, idx, expected) ==
    IF IndexError(gl, idx) THEN [raised |-> TRUE, list |-> gl]
    ELSE LET links == gl[PyPos(gl, idx)]
         IN IF IndexError(links, idx) THEN [raised |-> TRUE, list |-> gl]
            ELSE IF links[PyPos(links, idx)] # expected
                 THEN [raised |-> FALSE, list |-> Pop(gl, idx)]
                 ELSE [raised |-> FALSE, list |-> gl]

\* the tuple the loop runs over
TrimIdx == <<0, -1>>

\* get_granule_list from the query result on: lines 51-59
get_granule_list(found, expected) ==
    IF Len(found) > 0
    THEN LET first == TrimAt(found, TrimIdx[1], expected)
         IN IF first.raised THEN first
            ELSE TrimAt(first.list, TrimIdx[2], expected)
    ELSE [raised |-> FALSE, list |-> found]

---------------------------------------------------------------------------
(* The product files and the loader: _load_from_netCDF4 *)

\* the part of the driver's var_list that is modelled, in its order
var_list == <<"aux/co2_vmr", "mw/mw_air_temp">>

Vars == {var_list[i] : i \in 1..Len(var_list)}

\* v.split('/')[0]
GroupOf(v) == IF v = "aux/co2_vmr" THEN "aux" ELSE "mw"

Groups == {GroupOf(v) : v \in Vars}

DimNames == {"atrack", "xtrack"}

\* the dimension lists a variable can be declared with
DimLists == {<<>>, <<"atrack">>, <<"atrack", "xtrack">>, <<"xtrack">>,
             <<"xtrack", "atrack">>}

\* element types of an array: numeric, object array of str, object array of
\* something else
Kinds == {"num", "str", "obj"}

\* The size a dimension has for variable v in a file whose dimension sizes are
\* sz. In a product with grouped dimensions every group declares its own
\* dimensions, and same-named dimensions of different groups differ in size.
SizeIn(p, sz, v, dim) ==
    IF p.grouped /\ GroupOf(v) = "mw" THEN sz[dim] + 1 ELSE sz[dim]

\* The array of variable v in granule g: its shape, and one tagged cell per
\* index of the leading axis (a single cell for a scalar).
ArrayOf(p, sz, g, v) ==
    LET shape == [k \in 1..Len(p.names[v]) |-> SizeIn(p, sz, v, p.names[v][k])]
        lead  == IF Len(shape) = 0 THEN 1 ELSE shape[1]
    IN [shape |-> shape,
        data  |-> [i \in 1..lead |-> <<g, v, i>>],
        kind  |-> p.kind[v]]

\* The netCDF file of granule g of product p with dimension sizes sz:
\* dimensions declared at the root, dimensions declared per group, variables.
NetCDFFile(p, sz, g) ==
    [dimensions |-> IF p.grouped THEN <<>> ELSE sz,
     groups     |-> [grp \in Groups |->
                        IF p.grouped
                        THEN [d \in DimNames |->
                                 IF grp = "mw" THEN sz[d] + 1 ELSE sz[d]]
                        ELSE <<>>],
     variables  |-> [v \in Vars |->
                        [dimensions |-> p.names[v],
                         array      |-> ArrayOf(p, sz, g, v),
                         ncattrs    |-> p.attrs[v]]]]

\* nc.dimensions[dim].size, or on KeyError nc[grp].dimensions[dim].size
DimSize(nc, v, dim) ==
    IF dim \in DOMAIN nc.dimensions THEN nc.dimensions[dim]
    ELSE nc.groups[GroupOf(v)][dim]

\* _load_from_netCDF4: dat, dims, attrs keyed by the variables of var_list
load_from_netCDF4(nc) ==
    [dat   |-> [v \in Vars |-> nc.variables[v].array],
     dims  |-> [v \in Vars |->
                  [names |-> nc.variables[v].dimensions,
                   sizes |-> [k \in 1..Len(nc.variables[v].dimensions) |->
                                DimSize(nc, v, nc.variables[v].dimensions[k])]]],
     attrs |-> [v \in Vars |-> nc.variables[v].ncattrs]]

\* load_granule_from_s3 without the test of the payload's length
load_granule_from_s3_unchecked(nc_bytes, nc) ==
    [raised |-> FALSE, rec |-> load_from_netCDF4(nc)]

\* load_granule_from_s3: an empty payload raises OSError
load_granule_from_s3(nc_bytes, nc) ==
    IF nc_bytes = 0 THEN [raised |-> TRUE]
    ELSE [raised |-> FALSE, rec |-> load_from_netCDF4(nc)]

---------------------------------------------------------------------------
(* Aggregator: concat_granules *)

\* np.concatenate([a, b], axis = 0) raises ValueError
ConcatRaises(a, b) ==
    \/ Len(a.shape) = 0
    \/ Len(b.shape) # Len(a.shape)
    \/ Tail(a.shape) # Tail(b.shape)

\* the later granule's array taking the place of the aggregate
ConcatenateOverwrites(a, b) == b

\* np.concatenate([a, b], axis = 0)
Concatenate(a, b) ==
    [shape |-> <<a.shape[1] + b.shape[1]>> \o Tail(a.shape),
     data  |-> a.data \o b.data,
     kind  |-> a.kind]

\* concatenating every variable that has a dimension
HasAnyDim(names) == names # <<>>

\* 'atrack' in dims[v]['names'], after the skip of dimensionless variables
HasTrack(names) == names # <<>> /\ \E k \in 1..Len(names) : names[k] = "atrack"

\* the body of the loop over dat_list[1:] for one granule: lines 147-152
FoldGranule(cd, dat, dm) ==
    IF \E v \in Vars : HasTrack(dm[v].names) /\ ConcatRaises(cd[v], dat[v])
    THEN [raised |-> TRUE, cdat |-> cd]
    ELSE [raised |-> FALSE,
          cdat   |-> [v \in Vars |->
                        IF HasTrack(dm[v].names)
                        THEN Concatenate(cd[v], dat[v]) ELSE cd[v]]]

\* whether the size of the first dimension is replaced: lines 161-162
LeadsWithTrack(names) == Len(names) > 0 /\ names[1] = "atrack"

\* the descriptor copied without the update of the track size
ReconciledDimsCopied(d, arr) == [names |-> d.names, sizes |-> d.sizes]

\* the reconciled descriptor of one variable: lines 159-164
ReconciledDims(d, arr) ==
    [names |-> d.names,
     sizes |-> IF LeadsWithTrack(d.names)
               THEN [d.sizes EXCEPT ![1] = arr.shape[1]]
               ELSE d.sizes]

---------------------------------------------------------------------------
(* Writer: write_cdat *)

\* merged_dim_list[dim] = dim_size on an OrderedDict kept as a list of pairs
DictSet(m, dim, dim_size) ==
    IF \E i \in 1..Len(m) : m[i].dim = dim
    THEN [i \in 1..Len(m) |->
             IF m[i].dim = dim THEN [dim |-> dim, size |-> dim_size] ELSE m[i]]
    ELSE Append(m, [dim |-> dim, size |-> dim_size])

\* the zip loop over one variable's names and sizes: lines 180-181
RECURSIVE MergeVar(_, _, _)
MergeVar(m, d, k) ==
    IF k > Len(d.names) \/ k > Len(d.sizes) THEN m
    ELSE MergeVar(DictSet(m, d.names[k], d.sizes[k]), d, k + 1)

\* the loop over the variables: lines 178-181
RECURSIVE MergeDims(_, _, _)
MergeDims(m, dm, i) ==
    IF i > Len(var_list) THEN m
    ELSE MergeDims(MergeVar(m, dm[var_list[i]], 1), dm, i + 1)

\* the size the merged list holds for dim (0 when it holds none)
MergedSize(m, dim) ==
    IF \E i \in 1..Len(m) : m[i].dim = dim
    THEN (CHOOSE e \in {m[i] : i \in 1..Len(m)} : e.dim = dim).size
    ELSE 0

\* the dtype test of lines 194-206: an object array whose first element is
\* not a str raises ValueError
WriteRaises(arr) == arr.kind = "obj"

\* a file that does not exist
NoFile == [exists |-> FALSE, closed |-> FALSE, complete |-> FALSE,
           dimensions |-> <<>>, variables |-> <<>>, by_run |-> 0]

\* os.access on a path other than the one write_cdat writes to
ReadableElsewhere(f) == FALSE

\* os.access(output_file, os.R_OK)
Readable(f) == f.exists

---------------------------------------------------------------------------
(* Actions of concat_granules and write_cdat *)

\* an uncaught exception ends the script
Raise(exc) == /\ pc' = "crashed"
              /\ failed' = exc

\* cdat = copies of the arrays of dat_list[0]: lines 142-144
ConcatSeed ==
    /\ pc = "concat"
    /\ cdat' = dat_list[1]
    /\ fold_i' = 2
    /\ ops' = ops \cup {"concat"}
    /\ pc' = "fold"
    /\ UNCHANGED <<run, doy_i, doy, local_download, fs, product, raw, granule_list,
                   idx_i, num_tries, num_downloaded_files, files,
                   download_calls, load_i, dat_list, dims, cdims,
                   merged_dim_list, write_i, attrs, reads, unit, failed>>

\* one granule of dat_list[1:]: lines 146-152
ConcatFold ==
    /\ pc = "fold"
    /\ fold_i <= Len(dat_list)
    /\ LET r == FoldGranule(cdat, dat_list[fold_i], dims)
       IN IF r.raised
          THEN /\ Raise("ValueError")
               /\ unit' = "aborted"
               /\ UNCHANGED <<cdat, fold_i>>
          ELSE /\ cdat' = r.cdat
               /\ fold_i' = fold_i + 1
               /\ UNCHANGED <<pc, failed, unit>>
    /\ UNCHANGED <<run, doy_i, doy, local_download, fs, product, raw, granule_list,
                   idx_i, num_tries, num_downloaded_files, files,
                   download_calls, load_i, dat_list, dims, cdims,
                   merged_dim_list, write_i, attrs, reads, ops>>

\* the reconciled descriptors, and the return: lines 157-166
ConcatDims ==
    /\ pc = "fold"
    /\ fold_i > Len(dat_list)
    /\ cdims' = [v \in Vars |-> ReconciledDims(dims[v], cdat[v])]
    /\ pc' = "write"
    /\ UNCHANGED <<run, doy_i, doy, local_download, fs, product, raw, granule_list,
                   idx_i, num_tries, num_downloaded_files, files,
                   download_calls, load_i, dat_list, dims, cdat, fold_i,
                   merged_dim_list, write_i, attrs, reads, unit, ops, failed>>

\* write_cdat up to the loop over the variables: the merged dimensions, the
\* file opened for writing, its dimensions created: lines 178-185
WriteOpen ==
    /\ pc = "write"
    /\ merged_dim_list' = MergeDims(<<>>, cdims, 1)
    /\ fs' = [fs EXCEPT ![doy] =
                 [exists |-> TRUE, closed |-> FALSE, complete |-> FALSE,
                  dimensions |-> merged_dim_list', variables |-> <<>>,
                  by_run |-> run]]
    /\ write_i' = 1
    /\ ops' = ops \cup {"write"}
    /\ pc' = "write_var"
    /\ UNCHANGED <<run, doy_i, doy, local_download, product, raw, granule_list,
                   idx_i, num_tries, num_downloaded_files, files,
                   download_calls, load_i, dat_list, dims, cdat, cdims, fold_i,
                   attrs, reads, unit, failed>>

\* One variable of the loop: lines 186-219. An unsupported object array raises
\* inside the with block, which closes the file and leaves it where it is.
WriteVar ==
    /\ pc = "write_var"
    /\ write_i <= Len(var_list)
    /\ LET v == var_list[write_i]
       IN IF WriteRaises(cdat[v])
          THEN /\ fs' = [fs EXCEPT ![doy].closed = TRUE]
               /\ Raise("ValueError")
               /\ unit' = "aborted"
               /\ UNCHANGED write_i
          ELSE /\ fs' = [fs EXCEPT ![doy].variables =
                        Append(@, [name       |-> v,
                                   dimensions |-> cdims[v].names,
                                   shape      |-> cdat[v].shape,
                                   fill_value |-> "_FillValue" \in attrs[v],
                                   ncattrs    |-> attrs[v] \ {"_FillValue"}])]
               /\ write_i' = write_i + 1
               /\ UNCHANGED <<pc, failed, unit>>
    /\ UNCHANGED <<run, doy_i, doy, local_download, product, raw, granule_list,
                   idx_i, num_tries, num_downloaded_files, files,
                   download_calls, load_i, dat_list, dims, cdat, cdims, fold_i,
                   merged_dim_list, attrs, reads, ops>>

\* the end of the with block and of run_subagg; the driver goes on to the
\* next day
WriteClose ==
    /\ pc = "write_var"
    /\ write_i > Len(var_list)
    /\ fs' = [fs EXCEPT ![doy].closed = TRUE, ![doy].complete = TRUE]
    /\ unit' = "done"
    /\ doy_i' = doy_i + 1
    /\ pc' = "loop"
    /\ UNCHANGED <<run, doy, local_download, product, raw, granule_list,
                   idx_i, num_tries, num_downloaded_files, files,
                   download_calls, load_i, dat_list, dims, cdat, cdims, fold_i,
                   merged_dim_list, write_i, attrs, reads, ops, failed>>

---------------------------------------------------------------------------
(* SpecConcat: concat_granules and write_cdat on the records of 1..MaxGranules
   granules of any product *)

NoAttrs == [v \in Vars |-> {}]

ProductAttrs == [v \in Vars |-> IF v = var_list[1] THEN {"_FillValue", "units"}
                                                   ELSE {"units"}]

ConcatProducts ==
    {[names |-> nm, grouped |-> g, kind |-> [v \in Vars |-> "num"],
      attrs |-> ProductAttrs] : nm \in [Vars -> DimLists], g \in BOOLEAN}

\* the records of the granules whose files have the dimension sizes szs
LoadAll(p, szs) ==
    [g \in 1..Len(szs) |-> load_from_netCDF4(NetCDFFile(p, szs[g], g))]

InitConcat ==
    /\ product \in ConcatProducts
    /\ \E szs \in SeqsOf([DimNames -> 1..MaxExtent], 1, MaxGranules) :
          LET recs == LoadAll(product, szs)
          IN /\ dat_list = [g \in 1..Len(recs) |-> recs[g].dat]
             /\ dims = recs[Len(recs)].dims
             /\ attrs = recs[Len(recs)].attrs
             /\ granule_list = [g \in 1..Len(recs) |-> <<strftime_ymd(year, FirstDoy)>>]
             /\ reads = [g \in 1..Len(recs) |-> 1]
    /\ raw = granule_list
    /\ pc = "concat"
    /\ run = 1
    /\ doy_i = 1
    /\ doy = FirstDoy
    /\ local_download = FALSE
    /\ fs = [d \in {FirstDoy} |-> NoFile]
    /\ idx_i = 1
    /\ num_tries = 0
    /\ num_downloaded_files = 0
    /\ files = <<>>
    /\ download_calls = 0
    /\ load_i = Len(dat_list) + 1
    /\ cdat = <<>>
    /\ cdims = <<>>
    /\ fold_i = 1
    /\ merged_dim_list = <<>>
    /\ write_i = 1
    /\ unit = "running"
    /\ ops = {"open", "load"}
    /\ failed = "none"

NextConcat ==
    \/ ConcatSeed
    \/ ConcatFold
    \/ ConcatDims
    \/ WriteOpen
    \/ WriteVar
    \/ WriteClose

SpecConcat == InitConcat /\ [][NextConcat]_vars

---------------------------------------------------------------------------
(* Properties of concat_granules and write_cdat, under SpecConcat *)

\* concat_granules has returned
ConcatReturned == cdims # <<>>

\* write_cdat has built the merged dimension list and opened the file
MergedBuilt == fs[doy].exists

\* the descriptor of v names 'atrack'
CarriesTrack(v) == \E k \in 1..Len(dims[v].names) : dims[v].names[k] = "atrack"

\* the sum over the input granules of the extent of axis k of variable v
SumOfExtents(v, k) == SeqSum([g \in 1..Len(dat_list) |-> dat_list[g][v].shape[k]])

\* C3 as stated: for two or more granules and every variable whose descriptor
\* carries 'atrack', at whatever position, the size recorded for 'atrack' in
\* cdims is the sum of the variable's track-axis extents over the granules.
C3_TrackSizeIsSumAnywhere ==
    (ConcatReturned /\ Len(dat_list) >= 2) =>
        \A v \in Vars : \A k \in 1..Len(dims[v].names) :
            dims[v].names[k] = "atrack" =>
                cdims[v].sizes[k] = SumOfExtents(v, k)

\* C3 amended: for every variable whose leading dimension is 'atrack', the
\* size of the leading dimension in cdims is the sum over the input granules
\* of the variable's leading-axis extent.
C3_LeadingTrackSizeIsSum ==
    ConcatReturned =>
        \A v \in Vars :
            (Len(dims[v].names) > 0 /\ dims[v].names[1] = "atrack") =>
                /\ cdims[v].names = dims[v].names
                /\ cdims[v].sizes[1] = SumOfExtents(v, 1)

\* C3 witness: granules of different track extents were concatenated
\* for a variable that leads with 'atrack'.
C3_Witness ==
    /\ ConcatReturned
    /\ Len(dat_list) >= 2
    /\ \E v \in Vars :
          /\ Len(dims[v].names) > 0 /\ dims[v].names[1] = "atrack"
          /\ dat_list[1][v].shape[1] # dat_list[2][v].shape[1]
          /\ cdims[v].sizes[1] = SumOfExtents(v, 1)

\* C4: a variable whose descriptor does not contain 'atrack' (a scalar
\* included) has in the aggregate the value it has in the first granule,
\* whatever the later granules hold.
C4_StaticFromFirstGranule ==
    cdat # <<>> =>
        \A v \in Vars : ~CarriesTrack(v) => cdat[v] = dat_list[1][v]

\* C4 witness: concat_granules returned for several granules, and a static
\* variable with a dimension differs between the first two granules.
C4_Witness ==
    /\ ConcatReturned
    /\ Len(dat_list) >= 2
    /\ \E v \in Vars :
          /\ ~CarriesTrack(v)
          /\ dims[v].names # <<>>
          /\ dat_list[2][v] # dat_list[1][v]
          /\ cdat[v] = dat_list[1][v]

\* the representative record is internally consistent, and the granules agree
\* on every size that is not a track size (the records of one product agree
\* on the dimension names, and every record comes out of the loader)
C10_Given ==
    /\ \A v \in Vars : dims[v].sizes = dat_list[Len(dat_list)][v].shape
    /\ \A g \in 1..Len(dat_list) : \A v \in Vars :
          /\ Len(dat_list[g][v].shape) = Len(dims[v].names)
          /\ \A k \in 1..Len(dims[v].names) :
                dims[v].names[k] # "atrack" =>
                    dat_list[g][v].shape[k] = dat_list[1][v].shape[k]

\* every axis of every aggregated array has the extent the merged dimension
\* list declares for its dimension
C10_MergedMatchesArrays ==
    \A v \in Vars : \A k \in 1..Len(cdims[v].names) :
        /\ Len(cdat[v].shape) = Len(cdims[v].names)
        /\ MergedSize(merged_dim_list, cdims[v].names[k]) = cdat[v].shape[k]

\* C10 as stated: for consistent granules that agree on names and non-track
\* sizes, the merged dimension list matches the aggregated arrays.
C10_MergedSizesConsistent ==
    (MergedBuilt /\ C10_Given) => C10_MergedMatchesArrays

\* 'atrack' is only ever a leading dimension, and within one granule a
\* dimension name has one size in all the variables that use it
C10_Extra ==
    /\ \A v \in Vars : \A k \in 1..Len(dims[v].names) :
          dims[v].names[k] = "atrack" => k = 1
    /\ \A g \in 1..Len(dat_list) : \A v, w \in Vars :
          \A k \in 1..Len(dims[v].names) : \A l \in 1..Len(dims[w].names) :
              dims[v].names[k] = dims[w].names[l] =>
                  dat_list[g][v].shape[k] = dat_list[g][w].shape[l]

\* C10 amended: as C10, given also that 'atrack' occurs only as the leading
\* dimension and that a dimension name has one size within a granule.
C10_MergedSizesConsistentLeading ==
    (MergedBuilt /\ C10_Given /\ C10_Extra) => C10_MergedMatchesArrays

\* C10 witness: two variables carry 'atrack', granules of different track
\* extents were merged, and the file's dimensions are declared.
C10_Witness ==
    /\ MergedBuilt /\ C10_Given /\ C10_Extra
    /\ Len(dat_list) >= 2
    /\ \A v \in Vars : CarriesTrack(v)
    /\ \E v \in Vars : Len(dims[v].names) = 2
    /\ \E v \in Vars : dat_list[1][v].shape[1] # dat_list[2][v].shape[1]
    /\ MergedSize(merged_dim_list, "atrack") = SumOfExtents(var_list[1], 1)

---------------------------------------------------------------------------
(* SpecResolver: get_granule_list for one requested day, one loop pass per
   action *)

\* window_start.strftime('%Y%m%d') for the day being processed
expected_ymd == strftime_ymd(year, doy)

\* earthaccess.search_data returns: lines 35-38 and the test of line 51
RSearch ==
    /\ pc = "search"
    /\ \E r \in RawResults(doy, MaxRaw, MaxLinks) :
          /\ raw' = r
          /\ granule_list' = r
          /\ pc' = IF Len(r) > 0 THEN "trim" ELSE "return"
    /\ idx_i' = 1
    /\ UNCHANGED <<run, doy_i, doy, local_download, fs, product,
                   num_tries, num_downloaded_files, files, download_calls,
                   load_i, dat_list, dims, cdat, cdims, fold_i,
                   merged_dim_list, write_i, attrs, reads, unit, ops, failed>>

\* one pass of the loop over (0, -1): lines 53-57
RTrim ==
    /\ pc = "trim"
    /\ LET r == TrimAt(granule_list, TrimIdx[idx_i], expected_ymd)
       IN IF r.raised
          THEN /\ Raise("IndexError")
               /\ UNCHANGED <<granule_list, idx_i>>
          ELSE /\ granule_list' = r.list
               /\ idx_i' = idx_i + 1
               /\ pc' = IF idx_i = Len(TrimIdx) THEN "return" ELSE "trim"
               /\ UNCHANGED failed
    /\ UNCHANGED <<run, doy_i, doy, local_download, fs, product, raw,
                   num_tries, num_downloaded_files, files, download_calls,
                   load_i, dat_list, dims, cdat, cdims, fold_i,
                   merged_dim_list, write_i, attrs, reads, unit, ops>>

\* return granule_list: line 59
RReturn ==
    /\ pc = "return"
    /\ pc' = "returned"
    /\ UNCHANGED <<run, doy_i, doy, local_download, fs, product, raw,
                   granule_list, idx_i,
                   num_tries, num_downloaded_files, files, download_calls,
                   load_i, dat_list, dims, cdat, cdims, fold_i,
                   merged_dim_list, write_i, attrs, reads, unit, ops, failed>>

Days == {doy_list[i] : i \in 1..Len(doy_list)}

RunProducts ==
    {[names |-> [v \in Vars |-> IF v = var_list[1] THEN <<"atrack", "xtrack">>
                                                   ELSE <<"atrack">>],
      grouped |-> FALSE, kind |-> kd, attrs |-> ProductAttrs] :
        kd \in [Vars -> Kinds]}

\* the values the variables of one unit have before the unit starts
UnitReset ==
    /\ raw' = <<>>
    /\ granule_list' = <<>>
    /\ idx_i' = 1
    /\ num_tries' = 0
    /\ num_downloaded_files' = 0
    /\ files' = <<>>
    /\ download_calls' = 0
    /\ load_i' = 1
    /\ dat_list' = <<>>
    /\ dims' = <<>>
    /\ attrs' = <<>>
    /\ reads' = <<>>
    /\ cdat' = <<>>
    /\ cdims' = <<>>
    /\ fold_i' = 1
    /\ merged_dim_list' = <<>>
    /\ write_i' = 1
    /\ ops' = {}

InitResolver ==
    /\ pc = "search"
    /\ doy \in Days
    /\ run = 1
    /\ doy_i = 1
    /\ local_download = FALSE
    /\ fs = [d \in Days |-> NoFile]
    /\ product \in {p \in RunProducts : \A v \in Vars : p.kind[v] = "num"}
    /\ raw = <<>>
    /\ granule_list = <<>>
    /\ idx_i = 1
    /\ num_tries = 0
    /\ num_downloaded_files = 0
    /\ files = <<>>
    /\ download_calls = 0
    /\ load_i = 1
    /\ dat_list = <<>>
    /\ dims = <<>>
    /\ attrs = <<>>
    /\ reads = <<>>
    /\ cdat = <<>>
    /\ cdims = <<>>
    /\ fold_i = 1
    /\ merged_dim_list = <<>>
    /\ write_i = 1
    /\ unit = "running"
    /\ ops = {}
    /\ failed = "none"

NextResolver ==
    \/ RSearch
    \/ RTrim
    \/ RReturn

SpecResolver == InitResolver /\ [][NextResolver]_vars

---------------------------------------------------------------------------
(* Properties of get_granule_list, under SpecResolver *)

Range(s) == {s[i] : i \in 1..Len(s)}

\* C2 as stated: whenever get_granule_list returns a non-empty list, the date
\* token of the primary data link of every returned granule is the requested
\* day.
C2_ReturnedGranulesAreOfTheDay ==
    (pc = "returned" /\ Len(granule_list) > 0) =>
        \A i \in 1..Len(granule_list) : DateToken(granule_list[i]) = expected_ymd

\* C7 as stated: get_granule_list never raises, and when the only entry of
\* the catalog result is not of the requested day it returns the empty list.
C7_NeverRaisesAndGapIsEmpty ==
    /\ failed = "none"
    /\ (pc = "returned" /\ Len(raw) = 1 /\ DateToken(raw[1]) # expected_ymd) =>
           granule_list = <<>>

\* C8 as stated: of a catalog result of fewer than two entries, no entry of
\* the requested day is ever removed.
C8_SingleEntryOfTheDayIsKept ==
    (pc \in {"trim", "return", "returned", "crashed"} /\ Len(raw) < 2) =>
        \A i \in 1..Len(raw) :
            DateToken(raw[i]) = expected_ymd => raw[i] \in Range(granule_list)

---------------------------------------------------------------------------
(* Spec: the driver's loop over doy_list, run_subagg and all it calls, for
   MaxRuns invocations of the driver script *)

\* what the catalog returns in Spec: up to MaxRunRaw granules of one data
\* link each, as the CLIMCAPS products have them
RunCatalog(d) == RawResults(d, MaxRunRaw, 1)

\* the dimension sizes of every granule file read in Spec
RunSizes == [d \in DimNames |-> 1]

\* num_tries after one pass of the download loop: the loop body, lines
\* 237-239, does not assign it
TriesAfterAttempt(n) == n

\* the test of the while loop: line 236
DownloadAgain ==
    num_tries < max_num_tries /\ num_downloaded_files < Len(granule_list)

\* for doy in doy_list, the output file is readable: the unit is skipped
\* (driver lines 64-70)
DriverSkip ==
    /\ pc = "loop"
    /\ doy_i <= Len(doy_list)
    /\ Readable(fs[doy_list[doy_i]])
    /\ doy' = doy_list[doy_i]
    /\ doy_i' = doy_i + 1
    /\ unit' = "skipped"
    /\ UnitReset
    /\ UNCHANGED <<pc, run, local_download, fs, product, failed>>

\* for doy in doy_list, no readable output file: run_subagg is called
\* (driver lines 64-74; local_download is run_subagg's parameter, line 247)
DriverCompute ==
    /\ pc = "loop"
    /\ doy_i <= Len(doy_list)
    /\ ~Readable(fs[doy_list[doy_i]])
    /\ doy' = doy_list[doy_i]
    /\ local_download' \in BOOLEAN
    /\ unit' = "running"
    /\ UnitReset
    /\ pc' = "resolve"
    /\ UNCHANGED <<run, doy_i, fs, product, failed>>

\* the loop over doy_list is exhausted: the script ends
DriverExit ==
    /\ pc = "loop"
    /\ doy_i > Len(doy_list)
    /\ pc' = "exit"
    /\ UNCHANGED <<run, doy_i, doy, local_download, fs, product, raw,
                   granule_list, idx_i,
                   num_tries, num_downloaded_files, files, download_calls,
                   load_i, dat_list, dims, cdat, cdims, fold_i,
                   merged_dim_list, write_i, attrs, reads, unit, ops, failed>>

\* the script is started again, after it ended or died of an exception
StartRun ==
    /\ pc \in {"exit", "crashed"}
    /\ run < MaxRuns
    /\ run' = run + 1
    /\ doy_i' = 1
    /\ unit' = "idle"
    /\ failed' = "none"
    /\ pc' = "loop"
    /\ UNCHANGED <<doy, local_download, fs, product, raw,
                   granule_list, idx_i,
                   num_tries, num_downloaded_files, files, download_calls,
                   load_i, dat_list, dims, cdat, cdims, fold_i,
                   merged_dim_list, write_i, attrs, reads, ops>>

\* run_subagg up to the choice of the transfer: lines 253-262, with the
\* whole of get_granule_list
Resolve ==
    /\ pc = "resolve"
    /\ \E found \in RunCatalog(doy) :
          LET r == get_granule_list(found, expected_ymd)
          IN /\ granule_list' = r.list
             /\ IF r.raised
                THEN /\ Raise("IndexError")
                     /\ unit' = "aborted"
                     /\ UNCHANGED doy_i
                ELSE IF Len(r.list) = 0
                THEN /\ pc' = "loop"
                     /\ unit' = "nodata"
                     /\ doy_i' = doy_i + 1
                     /\ UNCHANGED failed
                ELSE /\ pc' = IF local_download THEN "download" ELSE "open"
                     /\ UNCHANGED <<unit, doy_i, failed>>
    /\ UNCHANGED <<run, doy, local_download, fs, product, raw, idx_i,
                   num_tries, num_downloaded_files, files, download_calls,
                   load_i, dat_list, dims, cdat, cdims, fold_i,
                   merged_dim_list, write_i, attrs, reads, ops>>

\* One pass of the while loop of _earthaccess_download: lines 236-239. Every
\* entry of the result is a file name (TRUE) or an exception object (FALSE).
DownloadCall ==
    /\ pc = "download"
    /\ DownloadAgain
    /\ download_calls < MaxCalls
    /\ \E fl \in [1..Len(granule_list) -> BOOLEAN] :
          /\ files' = fl
          /\ num_downloaded_files' = Cardinality({i \in 1..Len(fl) : fl[i]})
    /\ num_tries' = TriesAfterAttempt(num_tries)
    /\ download_calls' = download_calls + 1
    /\ ops' = ops \cup {"download"}
    /\ UNCHANGED <<pc, run, doy_i, doy, local_download, fs, product, raw,
                   granule_list, idx_i, load_i, dat_list, dims, cdat, cdims,
                   fold_i, merged_dim_list, write_i, attrs, reads, unit,
                   failed>>

\* The loop has ended: lines 242-244. os.path.join raises TypeError on an
\* entry that is not a file name.
DownloadReturn ==
    /\ pc = "download"
    /\ ~DownloadAgain
    /\ IF \E i \in 1..Len(files) : ~files[i]
       THEN /\ Raise("TypeError")
            /\ unit' = "aborted"
       ELSE /\ pc' = "load"
            /\ UNCHANGED <<failed, unit>>
    /\ load_i' = 1
    /\ UNCHANGED <<run, doy_i, doy, local_download, fs, product, raw,
                   granule_list, idx_i, num_tries, num_downloaded_files, files,
                   download_calls, dat_list, dims, cdat, cdims,
                   fold_i, merged_dim_list, write_i, attrs, reads, ops>>

\* s3_objs = earthaccess.open(granule_list): line 269
Open ==
    /\ pc = "open"
    /\ ops' = ops \cup {"open"}
    /\ load_i' = 1
    /\ pc' = "load"
    /\ UNCHANGED <<run, doy_i, doy, local_download, fs, product, raw,
                   granule_list, idx_i, num_tries, num_downloaded_files, files,
                   download_calls, dat_list, dims, cdat, cdims,
                   fold_i, merged_dim_list, write_i, attrs, reads, unit,
                   failed>>

\* the record of granule load_i is appended; after the last one run_subagg
\* calls concat_granules
Loaded(rec) ==
    /\ dat_list' = Append(dat_list, rec.dat)
    /\ dims' = rec.dims
    /\ attrs' = rec.attrs
    /\ load_i' = load_i + 1
    /\ pc' = IF load_i = Len(granule_list) THEN "concat" ELSE "load"
    /\ UNCHANGED <<failed, unit>>

\* One pass of the loop over the downloaded files: lines 264-267.
\* netCDF4.Dataset raises OSError on a file it cannot read.
LoadFile ==
    /\ pc = "load"
    /\ local_download
    /\ load_i <= Len(granule_list)
    /\ \E ok \in BOOLEAN :
          /\ reads' = Append(reads, IF ok THEN 1 ELSE 0)
          /\ IF ok
             THEN Loaded(load_from_netCDF4(NetCDFFile(product, RunSizes, load_i)))
             ELSE /\ Raise("OSError")
                  /\ unit' = "aborted"
                  /\ UNCHANGED <<dat_list, dims, attrs, load_i>>
    /\ ops' = ops \cup {"load"}
    /\ UNCHANGED <<run, doy_i, doy, local_download, fs, product, raw,
                   granule_list, idx_i, num_tries, num_downloaded_files, files,
                   download_calls, cdat, cdims,
                   fold_i, merged_dim_list, write_i>>

\* One pass of the loop over the s3 objects: lines 270-274. The object holds
\* no bytes (0) or the bytes of the granule's file (1).
LoadS3 ==
    /\ pc = "load"
    /\ ~local_download
    /\ load_i <= Len(granule_list)
    /\ \E nc_bytes \in {0, 1} :
          LET r == load_granule_from_s3(nc_bytes,
                                        NetCDFFile(product, RunSizes, load_i))
          IN /\ reads' = Append(reads, nc_bytes)
             /\ IF r.raised
                THEN /\ Raise("OSError")
                     /\ unit' = "aborted"
                     /\ UNCHANGED <<dat_list, dims, attrs, load_i>>
                ELSE Loaded(r.rec)
    /\ ops' = ops \cup {"load"}
    /\ UNCHANGED <<run, doy_i, doy, local_download, fs, product, raw,
                   granule_list, idx_i, num_tries, num_downloaded_files, files,
                   download_calls, cdat, cdims,
                   fold_i, merged_dim_list, write_i>>

Init ==
    /\ pc = "loop"
    /\ run = 1
    /\ doy_i = 1
    /\ doy = doy_list[1]
    /\ local_download = TRUE
    /\ fs = [d \in Days |-> NoFile]
    /\ product \in RunProducts
    /\ raw = <<>>
    /\ granule_list = <<>>
    /\ idx_i = 1
    /\ num_tries = 0
    /\ num_downloaded_files = 0
    /\ files = <<>>
    /\ download_calls = 0
    /\ load_i = 1
    /\ dat_list = <<>>
    /\ dims = <<>>
    /\ attrs = <<>>
    /\ reads = <<>>
    /\ cdat = <<>>
    /\ cdims = <<>>
    /\ fold_i = 1
    /\ merged_dim_list = <<>>
    /\ write_i = 1
    /\ unit = "idle"
    /\ ops = {}
    /\ failed = "none"

Next ==
    \/ DriverSkip
    \/ DriverCompute
    \/ DriverExit
    \/ StartRun
    \/ Resolve
    \/ DownloadCall
    \/ DownloadReturn
    \/ Open
    \/ LoadFile
    \/ LoadS3
    \/ ConcatSeed
    \/ ConcatFold
    \/ ConcatDims
    \/ WriteOpen
    \/ WriteVar
    \/ WriteClose

Spec == Init /\ [][Next]_vars

---------------------------------------------------------------------------
(* Properties of the pipeline, under Spec *)

\* C1 as stated: _earthaccess_download issues earthaccess.download at most
\* max_num_tries = 3 times, and not again once a call returned as many file
\* names as there are granules.
C1_AtMostThreeDownloadCalls ==
    /\ download_calls <= max_num_tries
    /\ (pc = "download" /\ download_calls > 0
            /\ num_downloaded_files = Len(granule_list)) => ~DownloadAgain

\* C5: a unit whose output file was completed by an earlier run of the driver
\* is skipped: neither download nor open, load, concatenation or write is
\* invoked for it again.
C5_CompletedUnitIsSkipped ==
    (unit # "idle" /\ fs[doy].complete /\ fs[doy].by_run < run) =>
        (unit = "skipped" /\ ops = {})

\* C5 witness: the second run of the driver skipped a day whose file the
\* first run wrote in full.
C5_Witness ==
    /\ run = 2
    /\ unit = "skipped"
    /\ ops = {}
    /\ fs[doy].complete
    /\ fs[doy].by_run = 1

\* C6 as stated: a unit whose write failed leaves nothing that a later run
\* takes for a finished output: every unit the driver skips has a file that
\* was written in full.
C6_SkippedUnitsAreComplete ==
    unit = "skipped" => fs[doy].complete

\* C9: concat_granules and write_cdat are invoked, and the output file is
\* created, only after a non-empty granule list was resolved and every one of
\* its granules was read and loaded; an empty list returns with nothing
\* invoked and no file created, and a failed load is never followed by a
\* write.
C9_WriteOnlyAfterAllLoaded ==
    /\ ("concat" \in ops \/ "write" \in ops) =>
           /\ Len(granule_list) > 0
           /\ Len(dat_list) = Len(granule_list)
           /\ Len(reads) = Len(granule_list)
           /\ \A i \in 1..Len(reads) : reads[i] > 0
    /\ unit = "nodata" =>
           /\ ops = {}
           /\ ~(fs[doy].exists /\ fs[doy].by_run = run)
    /\ (fs[doy].exists /\ fs[doy].by_run = run) => "write" \in ops
    /\ (unit = "aborted" /\ failed = "OSError") => "write" \notin ops

\* C9 witness: a unit of several granules read from s3 objects was written.
C9_Witness ==
    /\ unit = "done"
    /\ ~local_download
    /\ Len(granule_list) >= 2
    /\ Len(dat_list) = Len(granule_list)
    /\ "write" \in ops
    /\ fs[doy].complete /\ fs[doy].by_run = run

====
